---- MODULE Spec2Model ----
(***************************************************************************)
(* The partner example app of src/main.py: the single global session       *)
(* (_state, set_state, clear_state, state) and the Flask routes that read  *)
(* and write it and forward calls to the external climate client.          *)
(*                                                                         *)
(* Spec         requests served one at a time, one action per route        *)
(* SpecSetState the session store driven directly through set_state        *)
(* SpecRace     two login-redirect requests whose steps interleave         *)
(***************************************************************************)
EXTENDS Integers, Sequences, FiniteSets, TLC

VARIABLES
    _state,     \* the global session dict (main.py:50): present keys -> values
    request,    \* the last request served: its endpoint and its arguments
    response,   \* what the last request was answered with
    log,        \* the calls the last request made, in order
    authorized, \* history: some login-redirect got a non-empty code and response
    pc,         \* SpecRace: where each concurrent login-redirect request stands
    frame       \* SpecRace: the local variables of each such request

vars == <<_state, request, response, log, authorized, pc, frame>>

----------------------------------------------------------------------------
(* Bounds *)

NumSerials == 1   \* distinct token pairs the external service issues per user
MaxFields == 2    \* longest field list the external service returns

----------------------------------------------------------------------------
(* Python values.  A value carries its type, so that None, "", [] and {}   *)
(* stay distinct and truth tests follow Python's.                          *)

None == [type |-> "NoneType"]
Str(s) == [type |-> "str", s |-> s]
List(xs) == [type |-> "list", xs |-> xs]
Dict(d) == [type |-> "dict", d |-> d]

IsNone(v) == v.type = "NoneType"

\* bool(v), as `if v:` evaluates it
Truthy(v) ==
    CASE v.type = "NoneType" -> FALSE
      [] v.type = "str" -> v.s # ""
      [] v.type = "list" -> v.xs # << >>
      [] v.type = "dict" -> DOMAIN v.d # {}

\* the outcome of a call: a returned value or a raised exception
Return(v) == [raised |-> FALSE, ret |-> v]
Raise == [raised |-> TRUE, ret |-> None]

\* one entry of the request's call log
Call(name, args, out) == [call |-> name, args |-> args, out |-> out]

----------------------------------------------------------------------------
(* Configuration (main.py:37-40) *)

CLIMATE_API_ID == Str("api-id")
CLIMATE_API_SECRET == Str("api-secret")
CLIMATE_API_SCOPES == Str("api-scopes")
CLIMATE_API_KEY == Str("api-key")

----------------------------------------------------------------------------
(* The session store (main.py:50-71) *)

Keys == {"access_token", "refresh_token", "user", "fields"}

\* _state[key] = value on a dict
Assign(s, key, value) ==
    [k \in DOMAIN s \cup {key} |-> IF k = key THEN value ELSE s[k]]

set_state_clobber(s, kwargs) ==
    [k \in Keys |-> IF k \in DOMAIN kwargs THEN kwargs[k] ELSE None]

set_state(s, kwargs) ==
    LET s1 == IF "access_token" \in DOMAIN kwargs
              THEN Assign(s, "access_token", kwargs["access_token"]) ELSE s
        s2 == IF "refresh_token" \in DOMAIN kwargs
              THEN Assign(s1, "refresh_token", kwargs["refresh_token"]) ELSE s1
        s3 == IF "user" \in DOMAIN kwargs
              THEN Assign(s2, "user", kwargs["user"]) ELSE s2
        s4 == IF "fields" \in DOMAIN kwargs
              THEN Assign(s3, "fields", kwargs["fields"]) ELSE s3
    IN s4

clear_state_kwargs_keep_tokens == [user |-> None, fields |-> None]

clear_state_kwargs_empty_fields ==
    [access_token |-> None, refresh_token |-> None, user |-> None,
     fields |-> List(<< >>)]

\* the keyword arguments of clear_state's call
clear_state_kwargs ==
    [access_token |-> None, refresh_token |-> None, user |-> None, fields |-> None]

clear_state(s) == set_state(s, clear_state_kwargs)

\* _state.get(key)
state_of(s, key) == IF key \in DOMAIN s THEN s[key] ELSE None

state(key) == state_of(_state, key)

----------------------------------------------------------------------------
(* Flask: routes, url_for, redirect, responses *)

\* the @app.route table: endpoint (function name) -> URI
RoutePath ==
    [ home |-> "/home",
      login_redirect |-> "/login-redirect",
      refresh_token |-> "/refresh-token",
      logout_redirect |-> "/logout-redirect",
      field |-> "/field/<field_id>",
      upload_form |-> "/upload",
      update_status |-> "/upload/<upload_id>",
      scouting_observation |-> "/scouting-observation/<scouting_observation_id>",
      scouting_observations |-> "/scouting-observations",
      scouting_observation_attachments |->
          "/scouting-observation/<scouting_observation_id>/attachments",
      scouting_observation_attachments_contents |->
          "/scouting-observation/<scouting_observation_id>/attachments/<attachment_id>",
      as_planted |-> "/layers/asPlanted",
      as_harvested |-> "/layers/asHarvested",
      as_applied |-> "/layers/asApplied",
      get_activity_contents |-> "/layers/<layer_id>/<activity_id>/contents" ]

\* url_for(endpoint, **values): the endpoint's URI with the values filled in
url_for(endpoint, values) == [path |-> RoutePath[endpoint], values |-> values]

NoValues == [x \in {} |-> None]

redirect_uri == url_for("login_redirect", [_external |-> Str("True")])

\* the three kinds of answer a request gets
Html(route, page) == [route |-> route, status |-> "html", body |-> page]
Redirect(route, url) == [route |-> route, status |-> "redirect", body |-> url]
Fault(route, exception) == [route |-> route, status |-> "fault", body |-> exception]
Stream(route, content) == [route |-> route, status |-> "stream", body |-> content]

\* what a handler leaves behind: the session, its call log and its answer
Result(s, l, r) == [state |-> s, log |-> l, response |-> r]

----------------------------------------------------------------------------
(* The external climate client (climate.py, not part of this program):     *)
(* each call either raises or returns one of the values listed here.       *)

Users == {"A", "B"}

UserDict(u) == Dict([firstname |-> u, lastname |-> "Grower"])

IssuedAccessToken(u, n) == Str("at_" \o u \o ToString(n))
IssuedRefreshToken(u, n) == Str("rt_" \o u \o ToString(n))

\* a token response of authorize / reauthorize
Resp(u, n) ==
    Dict([access_token |-> IssuedAccessToken(u, n),
          refresh_token |-> IssuedRefreshToken(u, n),
          user |-> UserDict(u)])

Resps == {Resp(u, n) : u \in Users, n \in 1..NumSerials}

EmptyResps == {None, Dict(<< >>)}

CodeOf(u) == "code_" \o u

FieldIds == {"a", "b"}
BoundaryIds == {"p", "q"}

\* the field records the service knows; two of them share the id "b"
FieldRecs ==
    {[id |-> i, name |-> "field_" \o i, boundaryId |-> b] :
        i \in FieldIds, b \in BoundaryIds} \ {[id |-> "a", name |-> "field_a", boundaryId |-> "q"]}

FieldLists == UNION {[1..n -> FieldRecs] : n \in 0..MaxFields}

login_uri_outcomes == {Return(Str("https://climate.com/static/app-login"))}

authorize_outcomes(code) ==
    {Raise} \cup {Return(r) : r \in EmptyResps}
    \cup {Return(Resp(u, n)) : u \in {v \in Users : code = Str(CodeOf(v))},
                               n \in 1..NumSerials}

reauthorize_outcomes ==
    {Raise} \cup {Return(r) : r \in EmptyResps \cup Resps}

get_fields_outcomes == {Raise} \cup {Return(List(fl)) : fl \in FieldLists}

----------------------------------------------------------------------------
(* Handlers.  Each is the whole function: given the session it starts from *)
(* and the outcomes of the external calls it makes, the session it leaves, *)
(* the calls it made in order, and its answer.                              *)

\* render_field_link(field)
render_field_link(f) ==
    [link |-> url_for("field", [field_id |-> Str(f.id)]), name |-> f.name, id |-> f.id]

\* render_ul(xs): one <li> per element, in order
render_ul(xs) == [i \in 1..Len(xs) |-> xs[i]]

no_user_homepage(s, uri) ==
    LET call == Call("login_uri",
                     <<CLIMATE_API_ID, CLIMATE_API_SCOPES, redirect_uri>>, uri)
    IN Result(s, <<call>>,
              Html("home", [view |-> "no_user_homepage", login |-> uri.ret]))

user_homepage(s) ==
    IF state_of(s, "fields").type # "list"
    THEN Result(s, << >>, Fault("home", "TypeError"))
    ELSE LET fields == state_of(s, "fields").xs
             field_list == render_ul([i \in 1..Len(fields) |->
                                         render_field_link(fields[i])])
         IN Result(s, << >>,
                Html("home",
                     [view |-> "user_homepage",
                      first |-> state_of(s, "user").d.firstname,
                      last |-> state_of(s, "user").d.lastname,
                      access_token |-> state_of(s, "access_token"),
                      refresh_token |-> state_of(s, "refresh_token"),
                      fields |-> field_list,
                      upload |-> url_for("upload_form", NoValues),
                      logout |-> url_for("logout_redirect", NoValues),
                      refresh |-> url_for("refresh_token", NoValues),
                      scouting_observations |->
                          url_for("scouting_observations", NoValues),
                      as_planted |-> url_for("as_planted", NoValues),
                      as_harvested |-> url_for("as_harvested", NoValues),
                      as_applied |-> url_for("as_applied", NoValues)]))

home(s, uri) ==
    IF Truthy(state_of(s, "user"))
    THEN user_homepage(s)
    ELSE no_user_homepage(s, uri)

token_kwargs_reset_fields(resp) ==
    [user |-> resp.d.user,
     access_token |-> resp.d.access_token,
     refresh_token |-> resp.d.refresh_token,
     fields |-> List(<< >>)]

token_kwargs_swapped(resp) ==
    [user |-> resp.d.user,
     access_token |-> resp.d.refresh_token,
     refresh_token |-> resp.d.access_token]

\* the keyword arguments login_redirect and refresh_token store from resp
token_kwargs(resp) ==
    [user |-> resp.d.user,
     access_token |-> resp.d.access_token,
     refresh_token |-> resp.d.refresh_token]

\* request.args of /login-redirect: no code, an empty code, a user's code
LoginArgs ==
    {NoValues, [code |-> Str("")]} \cup {[code |-> Str(CodeOf(u))] : u \in Users}

login_redirect(s, args, auth, gf) ==
    IF "code" \notin DOMAIN args
    THEN Result(s, << >>, Fault("login_redirect", "BadRequestKeyError"))
    ELSE
    LET code == args.code
        home_url == url_for("home", NoValues)
        c1 == Call("authorize",
                   <<code, CLIMATE_API_ID, CLIMATE_API_SECRET, redirect_uri>>, auth)
    IN  IF ~Truthy(code)
        THEN Result(s, << >>, Redirect("login_redirect", home_url))
        ELSE IF auth.raised
        THEN Result(s, <<c1>>, Fault("login_redirect", "ClimateError"))
        ELSE IF ~Truthy(auth.ret)
        THEN Result(s, <<c1>>, Redirect("login_redirect", home_url))
        ELSE
        LET resp == auth.ret
            access_token == resp.d.access_token
            kw == token_kwargs(resp)
            c2 == Call("set_state", kw, Return(None))
            s1 == set_state(s, kw)
            c3 == Call("get_fields", <<access_token, CLIMATE_API_KEY>>, gf)
            c4 == Call("set_state", [fields |-> gf.ret], Return(None))
        IN  IF gf.raised
            THEN Result(s1, <<c1, c2, c3>>, Fault("login_redirect", "ClimateError"))
            ELSE Result(set_state(s1, [fields |-> gf.ret]), <<c1, c2, c3, c4>>,
                        Redirect("login_redirect", home_url))

refresh_token(s, re) ==
    LET c1 == Call("reauthorize",
                   <<state_of(s, "refresh_token"), CLIMATE_API_ID, CLIMATE_API_SECRET>>,
                   re)
        home_url == url_for("home", NoValues)
    IN  IF re.raised
        THEN Result(s, <<c1>>, Fault("refresh_token", "ClimateError"))
        ELSE IF ~Truthy(re.ret)
        THEN Result(s, <<c1>>, Redirect("refresh_token", home_url))
        ELSE
        LET kw == token_kwargs(re.ret)
            c2 == Call("set_state", kw, Return(None))
        IN Result(set_state(s, kw), <<c1, c2>>, Redirect("refresh_token", home_url))

logout_redirect(s) ==
    Result(clear_state(s),
           <<Call("set_state", clear_state_kwargs, Return(None))>>,
           Redirect("logout_redirect", url_for("home", NoValues)))

\* request path parameter of /field/<field_id>: "z" is the id of no field
FieldIdArgs == FieldIds \cup {"z"}

get_boundary_outcomes(boundaryId) ==
    {Raise, Return(Dict([id |-> boundaryId, type |-> "Polygon"]))}

matching_fields_unfiltered(fields, field_id) == fields

\* [f for f in fields if f['id'] == field_id]
matching_fields(fields, field_id) ==
    SelectSeq(fields, LAMBDA f : f.id = field_id)

field(s, field_id, gb) ==
    IF state_of(s, "fields").type # "list"
    THEN Result(s, << >>, Fault("field", "TypeError"))
    ELSE
    LET matches == matching_fields(state_of(s, "fields").xs, field_id)
    IN  IF matches = << >>
        THEN Result(s, << >>, Fault("field", "IndexError"))
        ELSE
        LET f == matches[1]
            c1 == Call("get_boundary",
                       <<Str(f.boundaryId), state_of(s, "access_token"),
                         CLIMATE_API_KEY>>, gb)
        IN  IF gb.raised
            THEN Result(s, <<c1>>, Fault("field", "ClimateError"))
            ELSE Result(s, <<c1>>,
                        Html("field", [view |-> "field", name |-> f.name,
                                       boundary |-> gb.ret,
                                       home |-> url_for("home", NoValues)]))

\* the requests /upload gets: a GET, a POST without a file, a POST with one
UploadRequests ==
    {[method |-> "GET", files |-> NoValues, form |-> NoValues],
     [method |-> "POST", files |-> NoValues,
      form |-> [file_content_type |-> Str("application/zip")]],
     [method |-> "POST", files |-> [file |-> Str("stream")],
      form |-> [file_content_type |-> Str("application/zip")]]}

UploadIds == {"u1"}

upload_outcomes == {Raise} \cup {Return(Str(u)) : u \in UploadIds}

upload_form(s, req, up) ==
    IF req.method = "POST"
    THEN IF "file" \notin DOMAIN req.files
         THEN Result(s, << >>, Redirect("upload_form", url_for("upload_form", NoValues)))
         ELSE
         LET c1 == Call("upload",
                        <<req.files.file, req.form.file_content_type,
                          state_of(s, "access_token"), CLIMATE_API_KEY>>, up)
         IN  IF up.raised
             THEN Result(s, <<c1>>, Fault("upload_form", "ClimateError"))
             ELSE Result(s, <<c1>>,
                         Html("upload_form",
                              [view |-> "uploaded", upload_id |-> up.ret,
                               status_url |->
                                   url_for("update_status", [upload_id |-> up.ret]),
                               home |-> url_for("home", NoValues)]))
    ELSE Result(s, << >>,
                Html("upload_form",
                     [view |-> "upload_form", home |-> url_for("home", NoValues)]))

get_upload_status_outcomes ==
    {Raise, Return(Dict([status |-> "INBOX"])), Return(Dict(<< >>))}

update_status(s, upload_id, st) ==
    LET c1 == Call("get_upload_status",
                   <<Str(upload_id), state_of(s, "access_token"), CLIMATE_API_KEY>>, st)
    IN  IF st.raised
        THEN Result(s, <<c1>>, Fault("update_status", "ClimateError"))
        ELSE Result(s, <<c1>>,
                    Html("update_status",
                         [view |-> "update_status", upload_id |-> Str(upload_id),
                          status |-> IF "status" \in DOMAIN st.ret.d
                                     THEN Str(st.ret.d.status) ELSE None,
                          home |-> url_for("home", NoValues)]))

ObservationIds == {"o1"}
AttachmentIds == {"x1"}

Observations == {[id |-> o] : o \in ObservationIds}

Attachments ==
    {[id |-> x, status |-> st, contentType |-> "image/jpeg", length |-> "10"] :
        x \in AttachmentIds, st \in {"ACTIVE", "DELETED"}}

get_scouting_observation_outcomes(id) == {Raise, Return(Dict([id |-> id]))}

get_scouting_observations_outcomes ==
    {Raise, Return(None), Return(List(<< >>))}
    \cup {Return(List(<<o>>)) : o \in Observations}

get_scouting_observation_attachments_outcomes ==
    {Raise, Return(None)} \cup {Return(List(<<a>>)) : a \in Attachments}

contents_outcomes == {Raise, Return(Str("bytes"))}

render_scouting_observation_link(o) ==
    [link |-> url_for("scouting_observation",
                      [scouting_observation_id |-> Str(o.id)]),
     oid |-> o.id]

render_attachment_link(scouting_observation_id, a) ==
    [attachment_id |-> a.id,
     link |-> IF a.status = "DELETED" THEN << >>
              ELSE <<url_for("scouting_observation_attachments_contents",
                             [scouting_observation_id |-> Str(scouting_observation_id),
                              attachment_id |-> Str(a.id),
                              contentType |-> Str(a.contentType),
                              length |-> Str(a.length)])>>,
     info |-> a]

scouting_observation(s, scouting_observation_id, ob) ==
    LET c1 == Call("get_scouting_observation",
                   <<state_of(s, "access_token"), CLIMATE_API_KEY,
                     Str(scouting_observation_id)>>, ob)
    IN  IF ob.raised
        THEN Result(s, <<c1>>, Fault("scouting_observation", "ClimateError"))
        ELSE Result(s, <<c1>>,
                    Html("scouting_observation",
                         [view |-> "scouting_observation",
                          scouting_observation_id |-> Str(scouting_observation_id),
                          json |-> ob.ret,
                          observations |-> url_for("scouting_observations", NoValues),
                          attachments |->
                              url_for("scouting_observation_attachments",
                                      [scouting_observation_id |->
                                           Str(scouting_observation_id)]),
                          home |-> url_for("home", NoValues)]))

scouting_observations(s, obs) ==
    LET c1 == Call("get_scouting_observations",
                   <<state_of(s, "access_token"), CLIMATE_API_KEY, 100>>, obs)
    IN  IF obs.raised
        THEN Result(s, <<c1>>, Fault("scouting_observations", "ClimateError"))
        ELSE Result(s, <<c1>>,
                    Html("scouting_observations",
                         [view |-> "scouting_observations",
                          body |-> IF Truthy(obs.ret)
                                   THEN render_ul([i \in 1..Len(obs.ret.xs) |->
                                            render_scouting_observation_link(obs.ret.xs[i])])
                                   ELSE << >>,
                          home |-> url_for("home", NoValues)]))

scouting_observation_attachments(s, scouting_observation_id, ats) ==
    LET c1 == Call("get_scouting_observation_attachments",
                   <<state_of(s, "access_token"), CLIMATE_API_KEY,
                     Str(scouting_observation_id)>>, ats)
    IN  IF ats.raised
        THEN Result(s, <<c1>>, Fault("scouting_observation_attachments", "ClimateError"))
        ELSE Result(s, <<c1>>,
                    Html("scouting_observation_attachments",
                         [view |-> "scouting_observation_attachments",
                          body |-> IF Truthy(ats.ret)
                                   THEN render_ul([i \in 1..Len(ats.ret.xs) |->
                                            render_attachment_link(
                                                scouting_observation_id, ats.ret.xs[i])])
                                   ELSE << >>,
                          attachments |->
                              url_for("scouting_observation",
                                      [scouting_observation_id |->
                                           Str(scouting_observation_id)]),
                          soid |-> Str(scouting_observation_id),
                          home |-> url_for("home", NoValues)]))

\* request.args of the two download routes: with and without a length
ContentsArgs ==
    {NoValues, [contentType |-> Str("image/jpeg"), length |-> Str("10")]}

\* request.args.get(name)
args_get(args, name) == IF name \in DOMAIN args THEN args[name] ELSE None

scouting_observation_attachments_contents(s, observation_id, attachment_id, args, co) ==
    LET content_type == args_get(args, "contentType")
        length == args_get(args, "length")
        c1 == Call("get_scouting_observation_attachments_contents",
                   <<state_of(s, "access_token"), CLIMATE_API_KEY,
                     Str(observation_id), Str(attachment_id),
                     content_type, length>>, co)
    IN  IF IsNone(length)
        THEN Result(s, << >>,
                    Fault("scouting_observation_attachments_contents", "TypeError"))
        ELSE IF co.raised
        THEN Result(s, <<c1>>,
                    Fault("scouting_observation_attachments_contents", "ClimateError"))
        ELSE Result(s, <<c1>>,
                    Stream("scouting_observation_attachments_contents",
                           [content_type |-> "image/jpeg", content |-> co.ret]))

\* the three activity endpoints, named as handle_activity is called with them
Activities == {"as_planted", "as_harvested", "as_applied"}

\* the listing methods the climate module defines
ClimateMethods == {"get_as_planted", "get_as_harvested", "get_as_applied"}

NextTokens == {"t1", "t2"}

\* request.args of an activity listing: without and with a next_token
ActivityArgs == {NoValues, [next_token |-> Str("t1")]}

ActivityRecs == {[id |-> "act1", length |-> "10"]}

\* what a listing method returns: (has_more_records, activities)
activity_outcomes ==
    {Raise} \cup
    {Return([has_more_records |-> h, activities |-> a]) :
        h \in {None} \cup {Str(n) : n \in NextTokens},
        a \in {None} \cup {List(<<r>>) : r \in ActivityRecs}}

get_callee(activity) == "get_" \o activity

render_activitiy_link(a, link) ==
    [activity_id |-> a.id,
     link |-> [base |-> link, activity_id |-> a.id, length |-> a.length],
     body |-> a]

more_records_html_same_page(activity, next_token, has_more_records) ==
    IF ~IsNone(has_more_records)
    THEN <<url_for(activity, [next_token |-> next_token])>>
    ELSE << >>

\* the "More records" link of handle_activity: no link, or the one link
more_records_html(activity, next_token, has_more_records) ==
    IF ~IsNone(has_more_records)
    THEN <<url_for(activity, [next_token |-> has_more_records])>>
    ELSE << >>

handle_activity(s, activity, args, out) ==
    LET next_token == args_get(args, "next_token")
        method == get_callee(activity)
        c1 == Call(method,
                   <<state_of(s, "access_token"), CLIMATE_API_KEY, next_token>>, out)
    IN  IF method \notin ClimateMethods
        THEN Result(s, << >>, Fault(activity, "AttributeError"))
        ELSE IF out.raised
        THEN Result(s, <<c1>>, Fault(activity, "ClimateError"))
        ELSE
        LET has_more_records == out.ret.has_more_records
            activities == out.ret.activities
        IN Result(s, <<c1>>,
                  Html(activity,
                       [view |-> "activity",
                        activity |-> activity,
                        body |-> IF ~IsNone(activities)
                                 THEN render_ul([i \in 1..Len(activities.xs) |->
                                          render_activitiy_link(
                                              activities.xs[i],
                                              url_for(activity, NoValues))])
                                 ELSE << >>,
                        no_data |-> IsNone(activities),
                        more_records_html |->
                            more_records_html(activity, next_token, has_more_records),
                        home |-> url_for("home", NoValues)]))

as_planted(s, args, out) == handle_activity(s, "as_planted", args, out)
as_harvested(s, args, out) == handle_activity(s, "as_harvested", args, out)
as_applied(s, args, out) == handle_activity(s, "as_applied", args, out)

get_activity_contents(s, layer_id, activity_id, args, co) ==
    LET length == args_get(args, "length")
        c1 == Call("get_activity_contents",
                   <<state_of(s, "access_token"), CLIMATE_API_KEY,
                     Str(layer_id), Str(activity_id), length>>, co)
    IN  IF IsNone(length)
        THEN Result(s, << >>, Fault("get_activity_contents", "TypeError"))
        ELSE IF co.raised
        THEN Result(s, <<c1>>, Fault("get_activity_contents", "ClimateError"))
        ELSE Result(s, <<c1>>,
                    Stream("get_activity_contents",
                           [mimetype |-> "application/zip", content |-> co.ret]))

----------------------------------------------------------------------------
(* Spec: the server answers one request at a time *)

NoRequest == [route |-> "", args |-> NoValues]

NoResponse == [route |-> "", status |-> "none", body |-> None]

\* a request as the server receives it
Request(route, args) == [route |-> route, args |-> args]

IdleFrame == [args |-> NoValues, resp |-> None, fields |-> None]

\* the module as imported (_state = {}), or as run as a script, which calls
\* clear_state() before app.run
Init ==
    /\ _state \in {NoValues, clear_state(NoValues)}
    /\ request = NoRequest
    /\ response = NoResponse
    /\ log = << >>
    /\ authorized = FALSE
    /\ pc = [t \in {} |-> ""]
    /\ frame = [t \in {} |-> IdleFrame]

\* a request served: the handler's result becomes the state
Serve(req, r, auth) ==
    /\ _state' = r.state
    /\ request' = req
    /\ log' = r.log
    /\ response' = r.response
    /\ authorized' = (authorized \/ auth)
    /\ UNCHANGED <<pc, frame>>

Home ==
    \E uri \in login_uri_outcomes :
        Serve(Request("home", NoValues), home(_state, uri), FALSE)

LoginRedirect ==
    \E args \in LoginArgs :
        \E auth \in IF "code" \in DOMAIN args /\ Truthy(args.code)
                    THEN authorize_outcomes(args.code) ELSE {Raise} :
            \E gf \in IF ~auth.raised /\ Truthy(auth.ret)
                      THEN get_fields_outcomes ELSE {Raise} :
                Serve(Request("login_redirect", args),
                      login_redirect(_state, args, auth, gf),
                      /\ "code" \in DOMAIN args
                      /\ Truthy(args.code)
                      /\ ~auth.raised
                      /\ Truthy(auth.ret))

RefreshToken ==
    \E re \in reauthorize_outcomes :
        Serve(Request("refresh_token", NoValues), refresh_token(_state, re), FALSE)

LogoutRedirect ==
    Serve(Request("logout_redirect", NoValues), logout_redirect(_state), FALSE)

FieldDetail ==
    \E field_id \in FieldIdArgs :
        \E gb \in IF state_of(_state, "fields").type = "list"
                       /\ matching_fields(state_of(_state, "fields").xs, field_id) # << >>
                  THEN get_boundary_outcomes(
                           matching_fields(state_of(_state, "fields").xs,
                                           field_id)[1].boundaryId)
                  ELSE {Raise} :
            Serve(Request("field", [field_id |-> Str(field_id)]),
                  field(_state, field_id, gb), FALSE)

UploadForm ==
    \E req \in UploadRequests : \E up \in upload_outcomes :
        Serve(Request("upload_form", req), upload_form(_state, req, up), FALSE)

UpdateStatus ==
    \E upload_id \in UploadIds : \E st \in get_upload_status_outcomes :
        Serve(Request("update_status", [upload_id |-> Str(upload_id)]),
              update_status(_state, upload_id, st), FALSE)

ScoutingObservation ==
    \E id \in ObservationIds : \E ob \in get_scouting_observation_outcomes(id) :
        Serve(Request("scouting_observation", [scouting_observation_id |-> Str(id)]),
              scouting_observation(_state, id, ob), FALSE)

ScoutingObservations ==
    \E obs \in get_scouting_observations_outcomes :
        Serve(Request("scouting_observations", NoValues),
              scouting_observations(_state, obs), FALSE)

ScoutingObservationAttachments ==
    \E id \in ObservationIds :
        \E ats \in get_scouting_observation_attachments_outcomes :
            Serve(Request("scouting_observation_attachments",
                          [scouting_observation_id |-> Str(id)]),
                  scouting_observation_attachments(_state, id, ats), FALSE)

ScoutingObservationAttachmentsContents ==
    \E id \in ObservationIds, x \in AttachmentIds, args \in ContentsArgs :
        \E co \in contents_outcomes :
            Serve(Request("scouting_observation_attachments_contents", args),
                  scouting_observation_attachments_contents(_state, id, x, args, co),
                  FALSE)

AsPlanted ==
    \E args \in ActivityArgs, out \in activity_outcomes :
        Serve(Request("as_planted", args), as_planted(_state, args, out), FALSE)

AsHarvested ==
    \E args \in ActivityArgs, out \in activity_outcomes :
        Serve(Request("as_harvested", args), as_harvested(_state, args, out), FALSE)

AsApplied ==
    \E args \in ActivityArgs, out \in activity_outcomes :
        Serve(Request("as_applied", args), as_applied(_state, args, out), FALSE)

GetActivityContents ==
    \E layer_id \in Activities, args \in ContentsArgs, co \in contents_outcomes :
        Serve(Request("get_activity_contents", args),
              get_activity_contents(_state, layer_id, "act1", args, co), FALSE)

Next ==
    \/ Home
    \/ LoginRedirect
    \/ RefreshToken
    \/ LogoutRedirect
    \/ FieldDetail
    \/ UploadForm
    \/ UpdateStatus
    \/ ScoutingObservation
    \/ ScoutingObservations
    \/ ScoutingObservationAttachments
    \/ ScoutingObservationAttachmentsContents
    \/ AsPlanted
    \/ AsHarvested
    \/ AsApplied
    \/ GetActivityContents

Spec == Init /\ [][Next]_vars

----------------------------------------------------------------------------
(* Properties of Spec *)

HomeUrl == [path |-> "/home", values |-> NoValues]

\* the last request obtained a non-empty response from authorize / reauthorize
ObtainedResp(l) ==
    /\ l # << >>
    /\ l[1].call \in {"authorize", "reauthorize"}
    /\ ~l[1].out.raised
    /\ Truthy(l[1].out.ret)

\* the calls to the external client among the calls of a request
ExternalCalls(l) == SelectSeq(l, LAMBDA c : c.call # "set_state")

\* C1: 'fields' is absent in the session unless some earlier login-redirect
\* request received a non-empty code and a non-empty response from
\* climate.authorize; no other route and no login-redirect with an empty code
\* or an empty response ever makes it present.
C1_FieldsOnlyAfterAuthorization ==
    ~IsNone(state("fields")) => authorized

C1_Witness ==
    /\ request.route = "login_redirect"
    /\ response.status = "redirect"
    /\ authorized
    /\ state("fields").type = "list"
    /\ state("fields").xs # << >>

\* C3: after clear_state(), hence after a logout-redirect request, state('user'),
\* state('access_token'), state('refresh_token') and state('fields') are all
\* None; logout-redirect calls nothing of the external client and answers
\* with a redirect to the home route.
C3_LogoutClearsSession ==
    request.route = "logout_redirect" =>
        /\ \A k \in Keys : IsNone(state(k))
        /\ ExternalCalls(log) = << >>
        /\ response.status = "redirect"
        /\ response.body = HomeUrl

C3_Witness ==
    /\ request.route = "logout_redirect"
    /\ authorized
    /\ \A k \in Keys : k \in DOMAIN _state /\ IsNone(_state[k])

\* the get_fields calls of a request that returned
Fetched(l) == SelectSeq(l, LAMBDA c : c.call = "get_fields" /\ ~c.out.raised)

\* the session holds the tokens and the user of resp
HoldsTokensOf(s, resp) ==
    /\ state_of(s, "access_token") = resp.d.access_token
    /\ state_of(s, "refresh_token") = resp.d.refresh_token
    /\ state_of(s, "user") = resp.d.user

\* C4 as claimed: after a login-redirect or refresh-token request that obtained
\* a non-empty response and was answered, each of access_token, refresh_token,
\* user and fields holds a value obtained during that request.
C4_SessionOverwrittenWholesale ==
    (/\ request.route \in {"login_redirect", "refresh_token"}
     /\ response.status = "redirect"
     /\ ObtainedResp(log)) =>
        /\ HoldsTokensOf(_state, log[1].out.ret)
        /\ Fetched(log) # << >>
        /\ state("fields") = Fetched(log)[1].out.ret

\* C4 as amended: a login-redirect or refresh-token request that obtained a
\* non-empty response stores that response's access_token, refresh_token and
\* user; fields is overwritten only by a login-redirect whose get_fields call
\* returned, with that call's result; a refresh-token request does not write
\* fields, which keeps the value it had before the request.
C4_TokensOverwrittenFieldsOnlyByLogin ==
    [][ObtainedResp(log') =>
          /\ HoldsTokensOf(_state', log'[1].out.ret)
          /\ IF request'.route = "login_redirect" /\ Fetched(log') # << >>
             THEN state_of(_state', "fields") = Fetched(log')[1].out.ret
             ELSE /\ "fields" \in DOMAIN _state' <=> "fields" \in DOMAIN _state
                  /\ state_of(_state', "fields") = state_of(_state, "fields")]_vars

C4_Witness ==
    /\ request.route = "refresh_token"
    /\ response.status = "redirect"
    /\ ObtainedResp(log)
    /\ HoldsTokensOf(_state, log[1].out.ret)
    /\ state("fields").type = "list"
    /\ state("fields").xs # << >>

\* C5: a login-redirect request with a non-empty code calls authorize with the
\* code; if the response is non-empty it stores the response's access_token,
\* refresh_token and user, then calls get_fields with that same access_token and
\* stores the result as 'fields', then redirects to home: get_fields is never
\* called before the tokens are stored nor with another access token.
C5_LoginOrder ==
    (/\ request.route = "login_redirect"
     /\ "code" \in DOMAIN request.args
     /\ Truthy(request.args.code)) =>
        /\ Len(log) >= 1
        /\ log[1].call = "authorize"
        /\ log[1].args[1] = request.args.code
        /\ IF ObtainedResp(log)
           THEN LET resp == log[1].out.ret
                IN /\ Len(log) >= 3
                   /\ log[2].call = "set_state"
                   /\ log[2].args = [access_token |-> resp.d.access_token,
                                     refresh_token |-> resp.d.refresh_token,
                                     user |-> resp.d.user]
                   /\ log[3].call = "get_fields"
                   /\ log[3].args[1] = resp.d.access_token
                   /\ state("access_token") = log[3].args[1]
                   /\ IF log[3].out.raised
                      THEN Len(log) = 3 /\ response.status = "fault"
                      ELSE /\ Len(log) = 4
                           /\ log[4].call = "set_state"
                           /\ log[4].args = [fields |-> log[3].out.ret]
                           /\ state("fields") = log[3].out.ret
                           /\ response.status = "redirect"
                           /\ response.body = HomeUrl
           ELSE Len(log) = 1

C5_Witness ==
    /\ request.route = "login_redirect"
    /\ Len(log) = 4
    /\ response.status = "redirect"
    /\ state("fields").type = "list"
    /\ state("fields").xs # << >>

\* C6: the home route returns the "no user" view whenever state('user') is
\* absent and the "user" view, with the session's first and last name, tokens
\* and field links, whenever state('user') is present.
C6_HomeBranchesOnUser ==
    request.route = "home" =>
        /\ response.status = "html"
        /\ IF IsNone(state("user"))
           THEN response.body.view = "no_user_homepage"
           ELSE /\ response.body.view = "user_homepage"
                /\ response.body.first = state("user").d.firstname
                /\ response.body.last = state("user").d.lastname
                /\ response.body.access_token = state("access_token")
                /\ response.body.refresh_token = state("refresh_token")

\* the session keys a route reads
Needs(route) ==
    CASE route = "field" -> {"fields", "access_token"}
      [] route \in {"update_status"} \cup Activities -> {"access_token"}
      [] OTHER -> {}

\* C7: every route that needs session data answers with a redirect to the home
\* route, not with a fault or a page, when the data it expects is absent.
C7_AbsentDataRedirectsHome ==
    (\E k \in Needs(request.route) : IsNone(state(k))) =>
        /\ response.status = "redirect"
        /\ response.body = HomeUrl

\* the positions of the cached field list whose record has the given id
Occurrences(fields, id) == {i \in 1..Len(fields) : fields[i].id = id}

\* the least element of a non-empty set of positions
First(S) == CHOOSE i \in S : \A j \in S : i <= j

\* C8: with a field list cached, the field detail route for a field_id that
\* occurs in the list selects the first record whose id equals field_id and
\* requests the boundary of that record's boundaryId with the session's
\* access_token; for a field_id that does not occur the lookup faults and no
\* boundary request is made.
C8_FieldLookup ==
    (request.route = "field" /\ state("fields").type = "list") =>
        LET fields == state("fields").xs
            occ == Occurrences(fields, request.args.field_id.s)
        IN  IF occ # {}
            THEN LET f == fields[First(occ)]
                 IN /\ Len(log) = 1
                    /\ log[1].call = "get_boundary"
                    /\ log[1].args[1] = Str(f.boundaryId)
                    /\ log[1].args[2] = state("access_token")
                    /\ response.status = "html" => response.body.name = f.name
                    /\ response.status \in {"html", "fault"}
            ELSE /\ response.status = "fault"
                 /\ response.body = "IndexError"
                 /\ log = << >>

C8_Witness ==
    /\ request.route = "field"
    /\ state("fields").type = "list"
    /\ Cardinality(Occurrences(state("fields").xs, request.args.field_id.s)) = 2
    /\ state("fields").xs[1].boundaryId # state("fields").xs[2].boundaryId
    /\ response.status = "html"

\* the external method and the URI that belong to each activity listing
ActivityMethod ==
    [as_planted |-> "get_as_planted",
     as_harvested |-> "get_as_harvested",
     as_applied |-> "get_as_applied"]

ActivityUri ==
    [as_planted |-> "/layers/asPlanted",
     as_harvested |-> "/layers/asHarvested",
     as_applied |-> "/layers/asApplied"]

\* C9: each of the three activity listings calls the external method of the
\* same activity with the request's next_token; the page holds a "more
\* records" link exactly when the call returned a continuation token, and the
\* link then targets the same activity's route with next_token equal to the
\* returned token.
C9_ActivityListing ==
    request.route \in Activities =>
        /\ Len(log) = 1
        /\ log[1].call = ActivityMethod[request.route]
        /\ log[1].args[1] = state("access_token")
        /\ log[1].args[3] = (IF "next_token" \in DOMAIN request.args
                             THEN request.args.next_token ELSE None)
        /\ response.status = (IF log[1].out.raised THEN "fault" ELSE "html")
        /\ response.status = "html" =>
              LET returned == log[1].out.ret.has_more_records
                  links == response.body.more_records_html
              IN  IF IsNone(returned)
                  THEN links = << >>
                  ELSE /\ Len(links) = 1
                       /\ links[1].path = ActivityUri[request.route]
                       /\ links[1].values = [next_token |-> returned]

C9_Witness ==
    /\ request.route = "as_harvested"
    /\ response.status = "html"
    /\ "next_token" \in DOMAIN request.args
    /\ Len(response.body.more_records_html) = 1
    /\ response.body.more_records_html[1].values.next_token # request.args.next_token

\* C11: after any sequence of login-redirect, refresh-token and logout-redirect
\* requests, also ones whose external call returns an empty response or
\* raises, state('fields') is present whenever state('user') is present, so
\* that the home route's user view, which iterates over state('fields'), is
\* rendered without a fault.
C11_UserImpliesFields ==
    /\ ~IsNone(state("user")) => ~IsNone(state("fields"))
    /\ request.route = "home" => response.status # "fault"

----------------------------------------------------------------------------
(* SpecSetState: the session store driven directly, set_state called with  *)
(* every subset of its four keywords                                        *)

\* the values each keyword is passed
SetValues(k) ==
    CASE k = "access_token" -> {None, IssuedAccessToken("A", 1)}
      [] k = "refresh_token" -> {None, IssuedRefreshToken("A", 1)}
      [] k = "user" -> {None, UserDict("A")}
      [] k = "fields" -> {None, List(<< >>)}

Kwargs ==
    UNION {{kw \in [K -> UNION {SetValues(k) : k \in Keys}] :
               \A k \in K : kw[k] \in SetValues(k)} : K \in SUBSET Keys}

SetStateCall ==
    \E kw \in Kwargs :
        /\ _state' = set_state(_state, kw)
        /\ request' = Request("set_state", kw)
        /\ log' = <<Call("set_state", kw, Return(None))>>
        /\ UNCHANGED <<response, authorized, pc, frame>>

ClearStateCall ==
    /\ _state' = clear_state(_state)
    /\ request' = Request("clear_state", NoValues)
    /\ log' = <<Call("set_state", clear_state_kwargs, Return(None))>>
    /\ UNCHANGED <<response, authorized, pc, frame>>

NextSetState == SetStateCall \/ ClearStateCall

SpecSetState == Init /\ [][NextSetState]_vars

\* C2: set_state called with any subset of the keys access_token,
\* refresh_token, user, fields changes exactly the keys passed: each key passed
\* holds the value passed, each key not passed stays as it was (present or not,
\* and state(key) returns what it returned before the call).
C2_SetStateFrame ==
    [][request'.route = "set_state" =>
          \A k \in Keys :
              IF k \in DOMAIN request'.args
              THEN k \in DOMAIN _state' /\ _state'[k] = request'.args[k]
              ELSE /\ k \in DOMAIN _state' <=> k \in DOMAIN _state
                   /\ state_of(_state', k) = state_of(_state, k)]_vars

C2_Witness ==
    /\ request.route = "set_state"
    /\ DOMAIN request.args = {"access_token"}
    /\ state("access_token") = IssuedAccessToken("A", 1)
    /\ state("refresh_token") = IssuedRefreshToken("A", 1)
    /\ state("user") = UserDict("A")
    /\ state("fields") = List(<< >>)

----------------------------------------------------------------------------
(* SpecRace: two login-redirect requests, one with each user's code, served *)
(* by two threads of the server; a thread may be preempted between the      *)
(* statements of login_redirect.                                            *)

InitRace ==
    /\ _state \in {NoValues, clear_state(NoValues)}
    /\ request = NoRequest
    /\ response = NoResponse
    /\ log = << >>
    /\ authorized = FALSE
    /\ pc = [u \in Users |-> "start"]
    /\ frame = [u \in Users |->
                   [args |-> [code |-> Str(CodeOf(u))], resp |-> None, fields |-> None]]

\* code = request.args['code']; if code: resp = climate.authorize(code, ...)
RaceAuthorize(u) ==
    /\ pc[u] = "start"
    /\ \E auth \in authorize_outcomes(frame[u].args.code) :
          /\ log' = Append(log, Call("authorize",
                                     <<frame[u].args.code, CLIMATE_API_ID,
                                       CLIMATE_API_SECRET, redirect_uri>>, auth))
          /\ IF auth.raised
             THEN /\ pc' = [pc EXCEPT ![u] = "fault"]
                  /\ UNCHANGED <<frame, authorized>>
             ELSE /\ pc' = [pc EXCEPT ![u] = "authorized"]
                  /\ frame' = [frame EXCEPT ![u].resp = auth.ret]
                  /\ authorized' = (authorized \/ Truthy(auth.ret))
    /\ UNCHANGED <<_state, request, response>>

\* if resp: set_state(user=..., access_token=..., refresh_token=...)
RaceStoreTokens(u) ==
    /\ pc[u] = "authorized"
    /\ IF Truthy(frame[u].resp)
       THEN /\ _state' = set_state(_state, token_kwargs(frame[u].resp))
            /\ log' = Append(log, Call("set_state", token_kwargs(frame[u].resp),
                                       Return(None)))
            /\ pc' = [pc EXCEPT ![u] = "stored"]
       ELSE /\ pc' = [pc EXCEPT ![u] = "done"]
            /\ UNCHANGED <<_state, log>>
    /\ UNCHANGED <<request, response, authorized, frame>>

\* fields = climate.get_fields(access_token, CLIMATE_API_KEY)
RaceGetFields(u) ==
    /\ pc[u] = "stored"
    /\ \E gf \in get_fields_outcomes :
          /\ log' = Append(log, Call("get_fields",
                                     <<frame[u].resp.d.access_token, CLIMATE_API_KEY>>,
                                     gf))
          /\ IF gf.raised
             THEN pc' = [pc EXCEPT ![u] = "fault"] /\ UNCHANGED frame
             ELSE /\ pc' = [pc EXCEPT ![u] = "fetched"]
                  /\ frame' = [frame EXCEPT ![u].fields = gf.ret]
    /\ UNCHANGED <<_state, request, response, authorized>>

\* set_state(fields=fields); return redirect(url_for('home'))
RaceStoreFields(u) ==
    /\ pc[u] = "fetched"
    /\ _state' = set_state(_state, [fields |-> frame[u].fields])
    /\ log' = Append(log, Call("set_state", [fields |-> frame[u].fields],
                               Return(None)))
    /\ pc' = [pc EXCEPT ![u] = "done"]
    /\ UNCHANGED <<request, response, authorized, frame>>

NextRace ==
    \E u \in Users :
        \/ RaceAuthorize(u)
        \/ RaceStoreTokens(u)
        \/ RaceGetFields(u)
        \/ RaceStoreFields(u)

SpecRace == InitRace /\ [][NextRace]_vars

\* C10: when two login-redirect requests, for users A and B, run with their
\* steps interleaved, then once both have completed the session's access_token,
\* refresh_token, user and fields all belong to one and the same login.
C10_OneLoginOwnsSession ==
    (\A u \in Users : pc[u] = "done" /\ Truthy(frame[u].resp)) =>
        \E u \in Users :
            /\ HoldsTokensOf(_state, frame[u].resp)
            /\ state("fields") = frame[u].fields

====
